---------------------------- MODULE Spec2Model ----------------------------
(***************************************************************************)
(* Model of diesel-derive-enum's derive(DbEnum) macro (src/src/lib.rs):    *)
(* the expansion of one enum definition under a set of enabled cargo       *)
(* features, and the run-time behaviour of the code the expansion emits    *)
(* (db_str_representation, from_db_binary_representation and the per       *)
(* backend ToSql / FromSql impls).                                         *)
(*                                                                         *)
(* A Rust String / &str is a sequence of one-character strings, so that    *)
(* case conversion and as_bytes() are computed, not assumed.  An           *)
(* Option<T> is a sequence of length at most one.                          *)
(***************************************************************************)
EXTENDS Integers, Sequences, FiniteSets, TLC

(***************************************************************************)
(* Characters, strings and bytes (ASCII letters, '_', '-', ' ').           *)
(***************************************************************************)
LowerAlpha == <<"a", "b", "c", "d", "e", "f", "g", "h", "i", "j", "k", "l", "m", "n", "o", "p", "q", "r", "s", "t", "u", "v", "w", "x", "y", "z">>

UpperAlpha == <<"A", "B", "C", "D", "E", "F", "G", "H", "I", "J", "K", "L", "M", "N", "O", "P", "Q", "R", "S", "T", "U", "V", "W", "X", "Y", "Z">>

Letters == 1..26

LowerSet == {LowerAlpha[i] : i \in Letters}

UpperSet == {UpperAlpha[i] : i \in Letters}

AsciiChars == LowerSet \cup UpperSet \cup {"_", "-", " "}

IsLower(c) == c \in LowerSet

IsUpper(c) == c \in UpperSet

\* char::is_alphanumeric, over the characters the model uses
IsAlphanumeric(c) == IsLower(c) \/ IsUpper(c)

LetterIndex(c) == CHOOSE i \in Letters : LowerAlpha[i] = c \/ UpperAlpha[i] = c

\* char::to_uppercase / char::to_lowercase, tabulated
UpperTable ==
    [c \in AsciiChars |-> IF IsLower(c) THEN UpperAlpha[LetterIndex(c)] ELSE c]

LowerTable ==
    [c \in AsciiChars |-> IF IsUpper(c) THEN LowerAlpha[LetterIndex(c)] ELSE c]

CharToUpper(c) == UpperTable[c]

CharToLower(c) == LowerTable[c]

\* str::to_uppercase / str::to_lowercase
to_uppercase(s) == [i \in 1..Len(s) |-> CharToUpper(s[i])]

to_lowercase(s) == [i \in 1..Len(s) |-> CharToLower(s[i])]

\* The UTF-8 encoding of one (ASCII) character, tabulated.
ByteTable ==
    [c \in AsciiChars |->
        IF IsLower(c) THEN 96 + LetterIndex(c)
        ELSE IF IsUpper(c) THEN 64 + LetterIndex(c)
        ELSE IF c = "_" THEN 95
        ELSE IF c = "-" THEN 45
        ELSE 32]  \* c = " "

ByteOf(c) == ByteTable[c]

\* str::as_bytes
as_bytes(s) == [i \in 1..Len(s) |-> ByteOf(s[i])]

\* U+FFFD REPLACEMENT CHARACTER
REPLACEMENT_CHARACTER == "U+FFFD"

\* String::from_utf8_lossy.  A byte below 0x80 is the character it encodes.
\* The only other byte the model feeds it is 0xFF, which starts no UTF-8
\* sequence: each occurrence is replaced by U+FFFD.
LossyTable ==
    [b \in {ByteOf(c) : c \in AsciiChars} \cup {255} |->
        IF b < 128 THEN CHOOSE c \in AsciiChars : ByteOf(c) = b
        ELSE REPLACEMENT_CHARACTER]

LossyChar(b) == LossyTable[b]

\* u8::to_ascii_uppercase
ByteToAsciiUpper(b) == IF 97 <= b /\ b <= 122 THEN b - 32 ELSE b

from_utf8_lossy(v) == [i \in 1..Len(v) |-> LossyChar(v[i])]

\* Option<T>
None == <<>>

Some(x) == <<x>>

is_some(o) == Len(o) > 0

unwrap(o) == o[1]

\* Option::unwrap_or: the default d is an already evaluated value.
unwrap_or(o, d) == IF is_some(o) THEN o[1] ELSE d

SubSeqOrEmpty(s, a, b) == IF a > b THEN <<>> ELSE SubSeq(s, a, b)

(***************************************************************************)
(* heck: identifier -> words.  The identifier is split at every character  *)
(* that is not alphanumeric; inside a piece a word ends after a lowercase  *)
(* character followed by an uppercase one, and before the last character   *)
(* of an uppercase run that is followed by a lowercase one.                *)
(*   i    : index of the current character c                               *)
(*   init : index where the current word starts                            *)
(*   mode : "Boundary" | "Lowercase" | "Uppercase"                         *)
(***************************************************************************)
RECURSIVE HeckWords(_, _, _, _, _)
HeckWords(s, i, init, mode, acc) ==
    IF i > Len(s) THEN acc
    ELSE LET c == s[i] IN
      IF ~IsAlphanumeric(c) THEN HeckWords(s, i + 1, i + 1, "Boundary", acc)
      ELSE IF i = Len(s) \/ ~IsAlphanumeric(s[i + 1])
        THEN \* no next character in this piece: the rest is a word
             HeckWords(s, i + 1, i + 1, "Boundary",
                       Append(acc, SubSeq(s, init, i)))
      ELSE LET next == s[i + 1]
               next_mode == IF IsLower(c) THEN "Lowercase"
                            ELSE IF IsUpper(c) THEN "Uppercase"
                            ELSE mode
           IN IF next_mode = "Lowercase" /\ IsUpper(next)
                THEN HeckWords(s, i + 1, i + 1, "Boundary",
                               Append(acc, SubSeq(s, init, i)))
              ELSE IF mode = "Uppercase" /\ IsUpper(c) /\ IsLower(next)
                THEN HeckWords(s, i + 1, i, "Boundary",
                               Append(acc, SubSeqOrEmpty(s, init, i - 1)))
              ELSE HeckWords(s, i + 1, init, next_mode, acc)

Words(s) == HeckWords(s, 1, 1, "Boundary", <<>>)

RECURSIVE Join(_, _)
Join(ws, sep) ==
    IF Len(ws) = 0 THEN <<>>
    ELSE IF Len(ws) = 1 THEN ws[1]
    ELSE ws[1] \o sep \o Join(Tail(ws), sep)

\* heck::capitalize: first character upper case, the rest lower case
Capitalize(w) ==
    IF Len(w) = 0 THEN w
    ELSE <<CharToUpper(w[1])>> \o to_lowercase(Tail(w))

to_snake_case(s) ==
    Join([i \in 1..Len(Words(s)) |-> to_lowercase(Words(s)[i])], <<"_">>)

to_kebab_case(s) ==
    Join([i \in 1..Len(Words(s)) |-> to_lowercase(Words(s)[i])], <<"-">>)

to_shouty_snake_case(s) ==
    Join([i \in 1..Len(Words(s)) |-> to_uppercase(Words(s)[i])], <<"_">>)

to_upper_camel_case(s) ==
    Join([i \in 1..Len(Words(s)) |-> Capitalize(Words(s)[i])], <<>>)

to_lower_camel_case(s) ==
    Join([i \in 1..Len(Words(s)) |->
            IF i = 1 THEN to_lowercase(Words(s)[i])
            ELSE Capitalize(Words(s)[i])], <<>>)

(***************************************************************************)
(* String literals of the source and of the inputs.                        *)
(***************************************************************************)
S_camelCase == <<"c", "a", "m", "e", "l", "C", "a", "s", "e">>

S_kebab_case == <<"k", "e", "b", "a", "b", "-", "c", "a", "s", "e">>

S_PascalCase == <<"P", "a", "s", "c", "a", "l", "C", "a", "s", "e">>

S_SCREAMING_SNAKE_CASE == <<"S", "C", "R", "E", "A", "M", "I", "N", "G", "_", "S", "N", "A", "K", "E", "_", "C", "A", "S", "E">>

S_UPPERCASE == <<"U", "P", "P", "E", "R", "C", "A", "S", "E">>

S_snake_case == <<"s", "n", "a", "k", "e", "_", "c", "a", "s", "e">>

S_verbatim == <<"v", "e", "r", "b", "a", "t", "i", "m">>

S_verbatimcase == <<"v", "e", "r", "b", "a", "t", "i", "m", "c", "a", "s", "e">>

S_Mapping == <<"M", "a", "p", "p", "i", "n", "g">>

S_db_enum_impl_ == <<"d", "b", "_", "e", "n", "u", "m", "_", "i", "m", "p", "l", "_">>

\* Input strings: a style token the macro does not know, attribute values,
\* identifiers and a byte string that names no variant.
S_lowercase == <<"l", "o", "w", "e", "r", "c", "a", "s", "e">>

S_NewEnum == <<"N", "e", "w", "E", "n", "u", "m">>

S_MyType == <<"M", "y", "T", "y", "p", "e">>

S_my_pg == <<"m", "y", "_", "p", "g">>

S_MyEnum == <<"M", "y", "E", "n", "u", "m">>

S_FooBar == <<"F", "o", "o", "B", "a", "r">>

S_Foo_Bar == <<"F", "o", "o", "_", "B", "a", "r">>

S_BazQux == <<"B", "a", "z", "Q", "u", "x">>

S_custom == <<"c", "u", "s", "t", "o", "m">>

S_foo_bar == <<"f", "o", "o", "_", "b", "a", "r">>

S_not_a_tag == <<"n", "o", "t", "_", "a", "_", "t", "a", "g">>

(***************************************************************************)
(* panic!(fmt, args..) and format!(fmt, args..): the template and the      *)
(* values substituted for its {} placeholders, in order.                   *)
(***************************************************************************)
Panic(fmt, args) == [kind |-> "panic", fmt |-> fmt, args |-> args]

\* Attributes are #[path = "lit"]; the first one with the given path wins.
\* (Attributes of another form make val_from_attrs panic; the inputs of
\* this model are all of the name = "value" form.)
val_from_attrs(attrs, attrname) ==
    IF \E i \in 1..Len(attrs) : attrs[i].path = attrname
    THEN LET first == CHOOSE i \in 1..Len(attrs) :
                        /\ attrs[i].path = attrname
                        /\ \A j \in 1..(i - 1) : attrs[j].path # attrname
         IN Some(attrs[first].lit)
    ELSE None

(***************************************************************************)
(* enum CaseStyle and CaseStyle::from_string                               *)
(***************************************************************************)
CaseStyle == {"Camel", "Kebab", "Pascal", "Upper", "ScreamingSnake", "Snake", "Verbatim"}

StyleOk(style) == [kind |-> "style", style |-> style]

\* The message of from_string's panic.  The source wraps the placeholder in
\* backquotes, a character a TLA+ string cannot hold.
UnsupportedCasing == "unsupported casing: {}"

from_string_lenient(name) ==
    CASE name = S_camelCase -> StyleOk("Camel")
      [] name = S_kebab_case -> StyleOk("Kebab")
      [] name = S_PascalCase -> StyleOk("Pascal")
      [] name = S_SCREAMING_SNAKE_CASE -> StyleOk("ScreamingSnake")
      [] name = S_UPPERCASE -> StyleOk("Upper")
      [] name = S_snake_case -> StyleOk("Snake")
      [] name = S_verbatim \/ name = S_verbatimcase -> StyleOk("Verbatim")
      [] OTHER -> StyleOk("Snake")

from_string(name) ==
    CASE name = S_camelCase -> StyleOk("Camel")
      [] name = S_kebab_case -> StyleOk("Kebab")
      [] name = S_PascalCase -> StyleOk("Pascal")
      [] name = S_SCREAMING_SNAKE_CASE -> StyleOk("ScreamingSnake")
      [] name = S_UPPERCASE -> StyleOk("Upper")
      [] name = S_snake_case -> StyleOk("Snake")
      [] name = S_verbatim \/ name = S_verbatimcase -> StyleOk("Verbatim")
      [] OTHER -> Panic(UnsupportedCasing, <<name>>)

stylize_value(value, style) ==
    CASE style = "Camel" -> to_lower_camel_case(value)
      [] style = "Kebab" -> to_kebab_case(value)
      [] style = "Pascal" -> to_upper_camel_case(value)
      [] style = "Upper" -> to_uppercase(value)
      [] style = "ScreamingSnake" -> to_shouty_snake_case(value)
      [] style = "Snake" -> to_snake_case(value)
      [] style = "Verbatim" -> value

(***************************************************************************)
(* generate_derive_enum_impls and the generators it calls.  A token        *)
(* stream is a record of what it declares; a type is named by its path.    *)
(***************************************************************************)
Backends == {"postgres", "mysql", "sqlite"}

Fieldless == "Variants must be fieldless"

\* variant_ids: quote!{ #enum_ty::#id } for each variant, or the panic of the
\* first variant that has fields.
variant_ids_unchecked(enum_ty, variants) ==
    [kind |-> "ok",
     ids |-> [i \in 1..Len(variants) |->
                [enum |-> enum_ty, id |-> variants[i].ident]]]

variant_ids(enum_ty, variants) ==
    IF \E i \in 1..Len(variants) : variants[i].fields # "Unit"
    THEN Panic(Fieldless, <<>>)
    ELSE [kind |-> "ok",
          ids |-> [i \in 1..Len(variants) |->
                     [enum |-> enum_ty, id |-> variants[i].ident]]]

\* variants_db: val_from_attrs(db_rename).unwrap_or_else(|| stylize_value(..))
variants_db_style_first(variants, case_style) ==
    [i \in 1..Len(variants) |->
        IF case_style # "Snake"
        THEN stylize_value(variants[i].ident, case_style)
        ELSE IF is_some(val_from_attrs(variants[i].attrs, "db_rename"))
        THEN unwrap(val_from_attrs(variants[i].attrs, "db_rename"))
        ELSE stylize_value(variants[i].ident, case_style)]

variants_db(variants, case_style) ==
    [i \in 1..Len(variants) |->
        IF is_some(val_from_attrs(variants[i].attrs, "db_rename"))
        THEN unwrap(val_from_attrs(variants[i].attrs, "db_rename"))
        ELSE stylize_value(variants[i].ident, case_style)]

\* The identifiers the unwrap_or_else closure of variants_db is run on, that
\* is, the arguments stylize_value is called with.
stylize_value_calls(variants) ==
    {variants[i].ident : i \in {j \in 1..Len(variants) :
        ~is_some(val_from_attrs(variants[j].attrs, "db_rename"))}}

variants_db_bytes(strs) == [i \in 1..Len(strs) |-> as_bytes(strs[i])]

\* The two generated functions, each a match: its arms in source order.
generate_common(enum_ty, variants_rs, strs, bytes) ==
    [db_str_representation |->
        [i \in 1..Len(variants_rs) |-> [pat |-> variants_rs[i], val |-> strs[i]]],
     from_db_binary_representation |->
        [i \in 1..Len(variants_rs) |-> [pat |-> bytes[i], val |-> variants_rs[i]]]]

\* pub struct #new_diesel_mapping, with its three wire-kind attributes
generate_new_diesel_mapping(new_diesel_mapping, pg_internal_type) ==
    [struct |-> new_diesel_mapping,
     derive |-> {"SqlType", "Clone"},
     mysql_type |-> "Enum",
     sqlite_type |-> "Text",
     postgres_type |-> pg_internal_type]

\* impl QueryId / AsExpression / ToSql<Nullable<..>> for the mapping type
generate_common_impls(diesel_mapping, enum_ty) ==
    [on |-> diesel_mapping, for |-> enum_ty]

\* mod pg_impl: FromSql / ToSql / Queryable <#diesel_mapping, Pg>.  The
\* clone impl is computed from with_clone but its interpolation is commented
\* out, so it is never part of the output.
generate_postgres_impl(diesel_mapping, enum_ty, with_clone) ==
    [backend |-> "postgres", diesel_mapping |-> diesel_mapping, for |-> enum_ty]

generate_mysql_impl(diesel_mapping, enum_ty) ==
    [backend |-> "mysql", diesel_mapping |-> diesel_mapping, for |-> enum_ty]

generate_sqlite_impl(diesel_mapping, enum_ty) ==
    [backend |-> "sqlite", diesel_mapping |-> diesel_mapping, for |-> enum_ty]

\* (diesel_mapping_def, diesel_mapping_use): skipped with an existing mapping
diesel_mapping_def(existing_mapping_path, new_diesel_mapping, pg_internal_type, enum_ty) ==
    IF is_some(existing_mapping_path) THEN None
    ELSE Some([def |-> generate_new_diesel_mapping(new_diesel_mapping, pg_internal_type),
               common_impls |-> generate_common_impls(new_diesel_mapping, enum_ty)])

diesel_mapping_use(existing_mapping_path, new_diesel_mapping, modname) ==
    IF is_some(existing_mapping_path) THEN None
    ELSE Some([mod |-> modname, name |-> new_diesel_mapping])

pg_impl(feat, existing_mapping_path, new_diesel_mapping, enum_ty) ==
    IF "postgres" \in feat
    THEN IF is_some(existing_mapping_path)
         THEN Some([common_impls |->
                        Some(generate_common_impls(unwrap(existing_mapping_path), enum_ty)),
                    impl |-> generate_postgres_impl(unwrap(existing_mapping_path),
                                                    enum_ty, TRUE)])
         ELSE Some([common_impls |-> None,
                    impl |-> generate_postgres_impl(new_diesel_mapping, enum_ty, FALSE)])
    ELSE None

mysql_impl(feat, new_diesel_mapping, enum_ty) ==
    IF "mysql" \in feat
    THEN Some([common_impls |-> None,
               impl |-> generate_mysql_impl(new_diesel_mapping, enum_ty)])
    ELSE None

sqlite_impl(feat, new_diesel_mapping, enum_ty) ==
    IF "sqlite" \in feat
    THEN Some([common_impls |-> None,
               impl |-> generate_sqlite_impl(new_diesel_mapping, enum_ty)])
    ELSE None

generate_derive_enum_impls(feat, existing_mapping_path, new_diesel_mapping, pg_internal_type, case_style, enum_ty, variants) ==
    LET modname == S_db_enum_impl_ \o enum_ty
        ids == variant_ids(enum_ty, variants)
    IN IF ids.kind = "panic" THEN ids
       ELSE LET strs == variants_db(variants, case_style)
            IN [kind |-> "tokens",
                enum_ty |-> enum_ty,
                diesel_mapping_use |->
                    diesel_mapping_use(existing_mapping_path, new_diesel_mapping, modname),
                modname |-> modname,
                common |-> generate_common(enum_ty, ids.ids, strs, variants_db_bytes(strs)),
                diesel_mapping_def |->
                    diesel_mapping_def(existing_mapping_path, new_diesel_mapping,
                                       pg_internal_type, enum_ty),
                impls |-> [b \in Backends |->
                    CASE b = "postgres" ->
                           pg_impl(feat, existing_mapping_path, new_diesel_mapping, enum_ty)
                      [] b = "mysql" -> mysql_impl(feat, new_diesel_mapping, enum_ty)
                      [] b = "sqlite" -> sqlite_impl(feat, new_diesel_mapping, enum_ty)]]

(***************************************************************************)
(* derive: the attribute checks, in source order, then the generation.     *)
(* The input is an enum (on a struct or union derive returns a compile     *)
(* error), its ExistingTypePath parses as a path and its DieselType as an  *)
(* identifier.                                                             *)
(***************************************************************************)
\* The panic messages (without the backquotes the source puts around the
\* attribute names).
ExistingNeedsPostgres ==
    "ExistingTypePath attribute only applies when the 'postgres' feature is enabled"

ExistingAndPgType == "Cannot specify both ExistingTypePath and PgType attributes"

ExistingAndDieselType ==
    "Cannot specify both ExistingTypePath and DieselType attributes"

\* !cfg!(feature = "postgres") && existing_mapping_path.is_some()
existing_without_postgres(feat, existing_mapping_path) ==
    "postgres" \notin feat /\ is_some(existing_mapping_path)

\* existing_mapping_path.is_some() && pg_internal_type.is_some()
existing_and_pg_type_unchecked(existing_mapping_path, pg_internal_type) == FALSE

existing_and_pg_type(existing_mapping_path, pg_internal_type) ==
    is_some(existing_mapping_path) /\ is_some(pg_internal_type)

\* existing_mapping_path.is_some() && new_diesel_mapping.is_some()
existing_and_diesel_type(existing_mapping_path, new_diesel_mapping) ==
    is_some(existing_mapping_path) /\ is_some(new_diesel_mapping)

derive(feat, input) ==
    LET existing_mapping_path == val_from_attrs(input.attrs, "ExistingTypePath")
        pg_attr == val_from_attrs(input.attrs, "PgType")
        pg_internal_type == unwrap_or(pg_attr, to_snake_case(input.ident))
        diesel_attr == val_from_attrs(input.attrs, "DieselType")
        new_diesel_mapping ==
            IF is_some(diesel_attr) THEN unwrap(diesel_attr)
            ELSE input.ident \o S_Mapping
        case_style ==
            from_string(unwrap_or(val_from_attrs(input.attrs, "DbValueStyle"),
                                  S_snake_case))
    IN IF existing_without_postgres(feat, existing_mapping_path)
         THEN Panic(ExistingNeedsPostgres, <<>>)
       ELSE IF existing_and_pg_type(existing_mapping_path, pg_attr)
         THEN Panic(ExistingAndPgType, <<>>)
       ELSE IF existing_and_diesel_type(existing_mapping_path, diesel_attr)
         THEN Panic(ExistingAndDieselType, <<>>)
       ELSE IF case_style.kind = "panic" THEN case_style
       ELSE generate_derive_enum_impls(feat, existing_mapping_path, new_diesel_mapping,
                                       pg_internal_type, case_style.style,
                                       input.ident, input.variants)

(***************************************************************************)
(* The generated code at run time.                                         *)
(***************************************************************************)
Ok(v) == [kind |-> "Ok", val |-> v]

Err(fmt, args) == [kind |-> "Err", fmt |-> fmt, args |-> args]

UnrecognizedVariant == "Unrecognized enum variant: '{}'"

\* A Rust match takes the first arm whose pattern matches.
Matching(arms, x) == {i \in 1..Len(arms) : arms[i].pat = x}

FirstArm(arms, x) == CHOOSE i \in Matching(arms, x) : \A j \in Matching(arms, x) : i <= j

LastArm(arms, x) == CHOOSE i \in Matching(arms, x) : \A j \in Matching(arms, x) : j <= i

\* fn db_str_representation(e: &#enum_ty) -> &'static str
db_str_representation_ident(common, e) == e.id

db_str_representation(common, e) ==
    common.db_str_representation[FirstArm(common.db_str_representation, e)].val

\* The fallback arm: v => Err(format!("Unrecognized enum variant: '{}'", lossy(v)))
unrecognized_variant_bare(v) == Err(UnrecognizedVariant, <<>>)

unrecognized_variant(v) == Err(UnrecognizedVariant, <<from_utf8_lossy(v)>>)

\* fn from_db_binary_representation(bytes: &[u8]) -> deserialize::Result<#enum_ty>
from_db_binary_representation_last_arm(common, bytes) ==
    IF Matching(common.from_db_binary_representation, bytes) # {}
    THEN Ok(common.from_db_binary_representation[
                LastArm(common.from_db_binary_representation, bytes)].val)
    ELSE unrecognized_variant(bytes)

from_db_binary_representation_ignore_case(common, bytes) ==
    LET upper(v) == [i \in 1..Len(v) |-> ByteToAsciiUpper(v[i])]
        arms == [i \in 1..Len(common.from_db_binary_representation) |->
                   [pat |-> upper(common.from_db_binary_representation[i].pat),
                    val |-> common.from_db_binary_representation[i].val]]
        key == upper(bytes)
    IN IF Matching(arms, key) # {}
       THEN Ok(arms[FirstArm(arms, key)].val)
       ELSE unrecognized_variant(bytes)

from_db_binary_representation(common, bytes) ==
    IF Matching(common.from_db_binary_representation, bytes) # {}
    THEN Ok(common.from_db_binary_representation[
                FirstArm(common.from_db_binary_representation, bytes)].val)
    ELSE unrecognized_variant(bytes)

\* A value on the wire: the SQL type it was bound as, and its bytes.
\* ToSql: postgres and mysql write the bytes of the string to the output
\* buffer; sqlite binds the string as Text.
to_sql(backend, common, e) ==
    IF backend = "sqlite"
    THEN [sql_type |-> "Text", bytes |-> as_bytes(db_str_representation(common, e))]
    ELSE [sql_type |-> "Binary", bytes |-> as_bytes(db_str_representation(common, e))]

\* FromSql: postgres and mysql take raw.as_bytes(); sqlite first reads the
\* value as a Vec<u8> (its blob/text bytes, which cannot fail).
from_sql(backend, common, raw) ==
    from_db_binary_representation(common, raw.bytes)

\* rustc on the expansion: every mapping type an impl names must exist, either
\* as the caller's own type or as the struct the expansion defines.
TypeExists(x, in_scope, ty) ==
    \/ ty \in in_scope
    \/ /\ is_some(x.diesel_mapping_def)
       /\ unwrap(x.diesel_mapping_def).def.struct = ty

Compiles(x, in_scope) ==
    \A b \in Backends :
        is_some(x.impls[b]) =>
            TypeExists(x, in_scope, unwrap(x.impls[b]).impl.diesel_mapping)

(***************************************************************************)
(* Inputs.                                                                 *)
(***************************************************************************)
MaxVariants == 2

Attr(path, lit) == [path |-> path, lit |-> lit]

Optional(path, lits) == {<<>>} \cup {<<Attr(path, l)>> : l \in lits}

StyleTokens ==
    {S_camelCase, S_kebab_case, S_PascalCase, S_SCREAMING_SNAKE_CASE, S_UPPERCASE,
     S_snake_case, S_verbatim, S_verbatimcase, S_lowercase}

TypeAttrs ==
    {e \o p \o d \o s :
        e \in Optional("ExistingTypePath", {S_NewEnum}),
        p \in Optional("PgType", {S_my_pg}),
        d \in Optional("DieselType", {S_MyType}),
        s \in Optional("DbValueStyle", StyleTokens)}

StyleAttrs == Optional("DbValueStyle", StyleTokens)

VariantIdents == {S_FooBar, S_Foo_Bar, S_BazQux}

Unit(id, attrs) == [ident |-> id, fields |-> "Unit", attrs |-> attrs]

\* A tuple variant, as in FooBar(u32)
Unnamed(id) == [ident |-> id, fields |-> "Unnamed", attrs |-> <<>>]

VariantPool ==
    {Unit(id, a) : id \in VariantIdents, a \in Optional("db_rename", {S_foo_bar})}

\* An enum's variants have pairwise distinct identifiers.
VariantLists ==
    {vs \in UNION {[1..n -> VariantPool] : n \in 1..MaxVariants} :
        \A i, j \in 1..Len(vs) : i # j => vs[i].ident # vs[j].ident}

\* Every combination of type attributes, on a few enums, some with a variant
\* that has fields; and every list of unit variants, under every style.
ConfigVariantLists ==
    {<<Unit(S_FooBar, <<>>), Unit(S_BazQux, <<Attr("db_rename", S_custom)>>)>>,
     <<Unnamed(S_FooBar)>>,
     <<Unit(S_FooBar, <<>>), Unnamed(S_BazQux)>>}

Inputs ==
    {[ident |-> S_MyEnum, attrs |-> a, variants |-> vs] :
        a \in TypeAttrs, vs \in ConfigVariantLists}
    \cup {[ident |-> S_MyEnum, attrs |-> a, variants |-> vs] :
        a \in StyleAttrs, vs \in VariantLists}

\* The types of the caller's crate the expansion can name.
InScope(inp) ==
    IF is_some(val_from_attrs(inp.attrs, "ExistingTypePath"))
    THEN {unwrap(val_from_attrs(inp.attrs, "ExistingTypePath"))}
    ELSE {}

WireType(backend) == IF backend = "sqlite" THEN "Text" ELSE "Binary"

\* Byte strings a database may hand to FromSql: each canonical byte string;
\* the first one in upper case, with a trailing space and with a trailing
\* 0xFF byte; and one that names no variant.
ForeignBytes(common) ==
    LET arms == common.from_db_binary_representation
    IN {as_bytes(S_not_a_tag)}
       \cup {arms[i].pat : i \in 1..Len(arms)}
       \cup {[i \in 1..Len(arms[1].pat) |-> ByteToAsciiUpper(arms[1].pat[i])],
             arms[1].pat \o <<32>>,
             arms[1].pat \o <<255>>}

(***************************************************************************)
(* The state machine.                                                      *)
(*   features  : the enabled cargo features (cfg!(feature = ..))           *)
(*   input     : the DeriveInput                                           *)
(*   expansion : the result of derive: a panic or the emitted tokens       *)
(*   stylized  : the identifiers stylize_value was called with             *)
(*   wire      : the value ToSql last wrote, until another one is read     *)
(*   loaded    : the last FromSql call and its result                      *)
(***************************************************************************)
VARIABLES features, input, expansion, stylized, wire, loaded

vars == <<features, input, expansion, stylized, wire, loaded>>

Init ==
    /\ features \in SUBSET Backends
    /\ input \in Inputs
    /\ expansion = [kind |-> "none"]
    /\ stylized = {}
    /\ wire = None
    /\ loaded = None

\* rustc expands #[derive(DbEnum)] on the enum.
Derive ==
    /\ expansion.kind = "none"
    /\ expansion' = derive(features, input)
    /\ stylized' = IF expansion'.kind = "tokens"
                   THEN stylize_value_calls(input.variants)
                   ELSE {}
    /\ UNCHANGED <<features, input, wire, loaded>>

Usable(backend) ==
    /\ expansion.kind = "tokens"
    /\ Compiles(expansion, InScope(input))
    /\ is_some(expansion.impls[backend])

VariantValues == {expansion.common.db_str_representation[i].pat :
                    i \in 1..Len(expansion.common.db_str_representation)}

\* What a FromSql call of the backend may be handed: the value ToSql wrote
\* for it, or a value of the backend's wire type from elsewhere.
Readable(backend) ==
    IF expansion.kind # "tokens" THEN {}
    ELSE {[sql_type |-> WireType(backend), bytes |-> v] :
            v \in ForeignBytes(expansion.common)}
         \cup (IF is_some(wire) /\ unwrap(wire).backend = backend
               THEN {unwrap(wire).raw}
               ELSE {})

\* <#enum_ty as ToSql<#diesel_mapping, DB>>::to_sql(&e, out)
ToSql(backend, e) ==
    /\ Usable(backend)
    /\ wire' = Some([backend |-> backend,
                     raw |-> to_sql(backend, expansion.common, e),
                     sent |-> e])
    /\ loaded' = None
    /\ UNCHANGED <<features, input, expansion, stylized>>

\* <#enum_ty as FromSql<#diesel_mapping, DB>>::from_sql(raw), on the value
\* ToSql wrote or on a value from elsewhere.
FromSql(backend, raw) ==
    /\ Usable(backend)
    /\ wire' = IF is_some(wire) /\ unwrap(wire).backend = backend
                     /\ unwrap(wire).raw = raw
                THEN wire
                ELSE None
    /\ loaded' = Some([backend |-> backend, raw |-> raw,
                       result |-> from_sql(backend, expansion.common, raw)])
    /\ UNCHANGED <<features, input, expansion, stylized>>

Next ==
    \/ Derive
    \/ \E b \in Backends : \E e \in
          (IF expansion.kind = "tokens" THEN VariantValues ELSE {}) : ToSql(b, e)
    \/ \E b \in Backends : \E raw \in Readable(b) : FromSql(b, raw)

Spec == Init /\ [][Next]_vars

(***************************************************************************)
(* Properties.                                                             *)
(***************************************************************************)
Expanded == expansion.kind # "none"

Tokens == expansion.kind = "tokens"

Panicked == expansion.kind = "panic"

HasAttr(attrs, path) == \E i \in 1..Len(attrs) : attrs[i].path = path

AttrValue(attrs, path) == attrs[CHOOSE i \in 1..Len(attrs) : attrs[i].path = path].lit

NumTags == Len(input.variants)

\* The i-th declared tag as a value of the enum, and its canonical string in
\* the forward table of the expansion.
Tag(i) == [enum |-> input.ident, id |-> input.variants[i].ident]

Canon(i) == expansion.common.db_str_representation[i].val

HasPayload(i) == input.variants[i].fields # "Unit"

\* A value written by ToSql has been read back by FromSql of the same backend.
RoundTripped == is_some(wire) /\ is_some(loaded)

\* C1 as stated: on every backend, decoding what encode wrote for a tag gives
\* that tag back.
C1_RoundTrip ==
    RoundTripped => unwrap(loaded).result = Ok(unwrap(wire).sent)

\* C1 amended: on every backend, decoding what encode wrote for a tag t gives
\* the first declared tag whose canonical string is that of t; so it gives t
\* whenever no tag declared before t has t's canonical string.
C1_RoundTripFirstDeclared ==
    RoundTripped =>
        \A i \in 1..NumTags :
            unwrap(wire).sent = Tag(i) =>
                /\ \E k \in 1..i :
                     /\ Canon(k) = Canon(i)
                     /\ \A j \in 1..(k - 1) : Canon(j) # Canon(i)
                     /\ unwrap(loaded).result = Ok(Tag(k))
                /\ (\A j \in 1..(i - 1) : Canon(j) # Canon(i)) =>
                     unwrap(loaded).result = Ok(Tag(i))

\* The second of two tags has gone through sqlite and come back as itself.
C1_Witness ==
    /\ RoundTripped
    /\ NumTags = 2
    /\ unwrap(wire).backend = "sqlite"
    /\ unwrap(wire).sent = Tag(2)
    /\ unwrap(loaded).raw = unwrap(wire).raw
    /\ unwrap(loaded).result = Ok(Tag(2))

CanonicalBytes == {as_bytes(Canon(i)) : i \in 1..NumTags}

\* C2: bytes equal to no tag's canonical bytes decode to a data error whose
\* message carries their lossy UTF-8 rendering, never to a tag.
C2_UnknownBytesAreDataError ==
    (is_some(loaded) /\ unwrap(loaded).raw.bytes \notin CanonicalBytes) =>
        /\ unwrap(loaded).result.kind = "Err"
        /\ unwrap(loaded).result.args = <<from_utf8_lossy(unwrap(loaded).raw.bytes)>>

\* Bytes that differ from a canonical string only in case were rejected.
C2_Witness ==
    /\ is_some(loaded)
    /\ unwrap(loaded).raw.bytes \notin CanonicalBytes
    /\ \E i \in 1..NumTags :
         from_utf8_lossy(unwrap(loaded).raw.bytes) = to_uppercase(Canon(i))
    /\ unwrap(loaded).result.kind = "Err"

\* C3: ExistingTypePath together with PgType or with DieselType is a
\* configuration error, whatever else is given.
C3_ExistingExcludesPgTypeAndDieselType ==
    (/\ Expanded
     /\ HasAttr(input.attrs, "ExistingTypePath")
     /\ HasAttr(input.attrs, "PgType") \/ HasAttr(input.attrs, "DieselType")) =>
        Panicked

\* With postgres enabled, ExistingTypePath and PgType alone were rejected
\* as a conflict.
C3_Witness ==
    /\ Panicked
    /\ "postgres" \in features
    /\ HasAttr(input.attrs, "ExistingTypePath")
    /\ HasAttr(input.attrs, "PgType")
    /\ ~HasAttr(input.attrs, "DieselType")
    /\ expansion.fmt = ExistingAndPgType

\* C4 as stated: ExistingTypePath is an error whenever mysql or sqlite is
\* among the enabled backends, postgres enabled or not.
C4_ExistingRejectedWithOtherBackend ==
    (/\ Expanded
     /\ HasAttr(input.attrs, "ExistingTypePath")
     /\ features \cap {"mysql", "sqlite"} # {}) =>
        Panicked

SevenTokens ==
    {S_camelCase, S_kebab_case, S_PascalCase, S_SCREAMING_SNAKE_CASE, S_UPPERCASE,
     S_snake_case, S_verbatim}

C6_PayloadErrorNamesTag ==
    (Expanded /\ \E i \in 1..NumTags : HasPayload(i)) =>
        /\ Panicked
        /\ \E i \in 1..NumTags :
             /\ HasPayload(i)
             /\ \E k \in 1..Len(expansion.args) :
                  expansion.args[k] = input.variants[i].ident

\* C6 amended: a tag with a payload is a configuration error; its message is
\* the fixed "Variants must be fieldless", which names no tag, unless one of
\* the attribute checks, made first, has already failed.
C6_PayloadIsRejected ==
    (Expanded /\ \E i \in 1..NumTags : HasPayload(i)) =>
        /\ Panicked
        /\ \/ expansion.fmt = Fieldless /\ expansion.args = <<>>
           \/ expansion.fmt \in
                {ExistingNeedsPostgres, ExistingAndPgType, ExistingAndDieselType,
                 UnsupportedCasing}

\* The second of two tags has a payload and generation stopped on it.
C6_Witness ==
    /\ Panicked
    /\ NumTags = 2
    /\ ~HasPayload(1)
    /\ HasPayload(2)
    /\ expansion.fmt = Fieldless

ChosenStyle ==
    from_string(IF HasAttr(input.attrs, "DbValueStyle")
                THEN AttrValue(input.attrs, "DbValueStyle")
                ELSE S_snake_case).style

\* C7: the forward table has one entry per declared tag, in order; the entry
\* is the tag's db_rename when it has one, whatever the style, and else the
\* style applied to the identifier; the style is applied to no tag that has
\* a db_rename.
C7_OverrideElseStyle ==
    Tokens =>
        /\ Len(expansion.common.db_str_representation) = NumTags
        /\ \A i \in 1..NumTags :
             /\ expansion.common.db_str_representation[i].pat = Tag(i)
             /\ IF HasAttr(input.variants[i].attrs, "db_rename")
                THEN /\ Canon(i) = AttrValue(input.variants[i].attrs, "db_rename")
                     /\ input.variants[i].ident \notin stylized
                ELSE /\ Canon(i) = stylize_value(input.variants[i].ident, ChosenStyle)
                     /\ input.variants[i].ident \in stylized

\* Under kebab-case, a renamed FooBar is "foo_bar" and BazQux is "baz-qux".
C7_Witness ==
    /\ Tokens
    /\ NumTags = 2
    /\ HasAttr(input.attrs, "DbValueStyle")
    /\ AttrValue(input.attrs, "DbValueStyle") = S_kebab_case
    /\ input.variants[1].ident = S_FooBar
    /\ HasAttr(input.variants[1].attrs, "db_rename")
    /\ Canon(1) = S_foo_bar
    /\ input.variants[2].ident = S_BazQux
    /\ Canon(2) = <<"b", "a", "z", "-", "q", "u", "x">>

DataError == is_some(loaded) /\ unwrap(loaded).result.kind = "Err"

\* C8 as stated: a data error carries the rendering of the raw value and the
\* name of the enum.
C8_DataErrorNamesEnum ==
    DataError =>
        /\ \E i \in 1..Len(unwrap(loaded).result.args) :
             unwrap(loaded).result.args[i] = from_utf8_lossy(unwrap(loaded).raw.bytes)
        /\ \E i \in 1..Len(unwrap(loaded).result.args) :
             unwrap(loaded).result.args[i] = input.ident

\* C8 amended: a data error is the fixed message "Unrecognized enum variant:
\* '{}'" with one argument, the lossy rendering of the raw value; the enum is
\* not named.
C8_DataErrorCarriesRendering ==
    DataError =>
        /\ unwrap(loaded).result.fmt = UnrecognizedVariant
        /\ Len(unwrap(loaded).result.args) = 1
        /\ unwrap(loaded).result.args[1] = from_utf8_lossy(unwrap(loaded).raw.bytes)
        /\ unwrap(loaded).result.args[1] # input.ident

\* Bytes that are not UTF-8 were rendered with the replacement character.
C8_Witness ==
    /\ DataError
    /\ \E i \in 1..Len(unwrap(loaded).raw.bytes) : unwrap(loaded).raw.bytes[i] = 255
    /\ \E i \in 1..Len(unwrap(loaded).result.args[1]) :
         unwrap(loaded).result.args[1][i] = REPLACEMENT_CHARACTER

\* Tags i < j have the same canonical string, and its bytes were decoded.
Collision(i, j) ==
    /\ i < j
    /\ Canon(i) = Canon(j)
    /\ is_some(loaded)
    /\ unwrap(loaded).raw.bytes = as_bytes(Canon(i))

\* C9 as stated: of two tags with the same canonical string, decode returns
\* the one declared later.
C9_LaterDeclaredWins ==
    Tokens =>
        \A i, j \in 1..NumTags :
            (Collision(i, j) /\ \A k \in (j + 1)..NumTags : Canon(k) # Canon(j)) =>
                unwrap(loaded).result = Ok(Tag(j))

\* C9 amended: of two tags with the same canonical string, generation
\* succeeds and decode returns the one declared first.
C9_EarlierDeclaredWins ==
    Tokens =>
        \A i, j \in 1..NumTags :
            (Collision(i, j) /\ \A k \in 1..(i - 1) : Canon(k) # Canon(i)) =>
                unwrap(loaded).result = Ok(Tag(i))

\* FooBar and Foo_Bar are both "foo_bar"; its bytes decoded to the first.
C9_Witness ==
    /\ Tokens
    /\ NumTags = 2
    /\ Collision(1, 2)
    /\ ~HasAttr(input.variants[1].attrs, "db_rename")
    /\ ~HasAttr(input.variants[2].attrs, "db_rename")
    /\ unwrap(loaded).result = Ok(Tag(1))

\* The name of the marker type the macro generates for the input.
MarkerName ==
    IF HasAttr(input.attrs, "DieselType") THEN AttrValue(input.attrs, "DieselType")
    ELSE input.ident \o S_Mapping

\* C10 as stated: every enabled backend's impls are for the caller's own type
\* or for the marker type, and the marker type is defined by the expansion
\* whenever an impl is for it.
C10_DescriptorExists ==
    Tokens =>
        \A b \in features :
            /\ is_some(expansion.impls[b])
            /\ LET ty == unwrap(expansion.impls[b]).impl.diesel_mapping IN
               \/ /\ HasAttr(input.attrs, "ExistingTypePath")
                  /\ ty = AttrValue(input.attrs, "ExistingTypePath")
               \/ /\ ty = MarkerName
                  /\ is_some(expansion.diesel_mapping_def)
                  /\ unwrap(expansion.diesel_mapping_def).def.struct = ty

=============================================================================
